---- MODULE Spec2Model ----
(***************************************************************************)
(* Model of app.py, the Streamlit background remover: resize_image, the    *)
(* body of process_image, the st.cache_data(ttl=3600) wrapper around it,   *)
(* and one script run of main() per user interaction.                      *)
(*                                                                         *)
(* A bitmap is a record: its size, its mode, the filters applied to it in  *)
(* order, the matting parameters rembg was called with (if it was) and the *)
(* solid colour it was pasted onto (if it was).  An image file is a record *)
(* of what the code can observe of its bytes: their length, whether        *)
(* Image.open accepts them, and the size and mode of the decoded picture.  *)
(***************************************************************************)
EXTENDS Integers, Sequences, FiniteSets, TLC

VARIABLES
    session_options,  \* st.session_state.session_options
    my_upload,        \* the file held by st.file_uploader (NoFile: none)
    zebra,            \* the file at ./zebra.jpg (NoFile: it does not exist)
    cache,            \* the entries st.cache_data holds for process_image
    now,              \* the clock, in seconds
    run,              \* what the last script run of main() did
    history,          \* per cache key, the last pair a caller was handed
    nruns,            \* script runs so far
    nticks,           \* clock advances so far
    rz_in,            \* resize_image on its own: <<width, height, max_dim>>
    rz_out            \* resize_image on its own: the outcome

vars == <<session_options, my_upload, zebra, cache, now, run, history,
          nruns, nticks, rz_in, rz_out>>

app_vars == <<session_options, my_upload, zebra, cache, now, run, history,
              nruns, nticks>>

(***************************************************************************)
(* Bounds of the model.                                                    *)
(***************************************************************************)
MaxRuns == 2
MaxTicks == 1
MaxSide == 18
MaxDimBound == 9

(***************************************************************************)
(* Constants of the program.                                               *)
(***************************************************************************)
MAX_FILE_SIZE == 15 * 1024 * 1024
MAX_IMAGE_DIM == 2500
TTL == 3600

(***************************************************************************)
(* Values.                                                                 *)
(***************************************************************************)
NoMatting == [called |-> FALSE, alpha_matting |-> FALSE,
              fg_threshold |-> 0, bg_threshold |-> 0]

\* Python's None where an image is expected.
None == [size |-> <<0, 0>>, mode |-> "None", ops |-> <<>>,
         matting |-> NoMatting, fill |-> ""]

NoFile == [name |-> "", len |-> 0, decodable |-> FALSE,
           size |-> <<0, 0>>, mode |-> "None"]

\* The files a user may upload.  poster.png is exactly at the size limit and
\* larger than MAX_IMAGE_DIM; broken.jpg is not an image; huge.png is one byte
\* over the limit.
Uploads ==
    { [name |-> "photo.jpg",  len |-> 2048, decodable |-> TRUE,
       size |-> <<100, 100>>, mode |-> "RGB"],
      [name |-> "poster.png", len |-> MAX_FILE_SIZE, decodable |-> TRUE,
       size |-> <<3000, 2000>>, mode |-> "RGBA"],
      [name |-> "broken.jpg", len |-> 512, decodable |-> FALSE,
       size |-> <<0, 0>>, mode |-> "None"],
      [name |-> "huge.png",   len |-> MAX_FILE_SIZE + 1, decodable |-> TRUE,
       size |-> <<4000, 3000>>, mode |-> "RGB"] }

\* What may lie at ./zebra.jpg: nothing, a small picture, or a large one.
ZebraFiles ==
    { NoFile,
      [name |-> "zebra.jpg", len |-> 300000, decodable |-> TRUE,
       size |-> <<800, 600>>, mode |-> "RGB"],
      [name |-> "zebra.jpg", len |-> 20 * 1024 * 1024, decodable |-> TRUE,
       size |-> <<6000, 4000>>, mode |-> "RGB"] }

\* The values the sidebar widgets take.
toggle_values == BOOLEAN
fg_slider_values == {240, 255}
bg_slider_values == {10, 0}
\* st.color_picker: the default colour, and a colour with 0 alpha, which the
\* sidebar text says can be picked.
color_picker_values == {"#1E1E1E", "#00000000"}

\* ImageColor's reading of a colour string's alpha channel.
Alpha(color) ==
    CASE color = "#00000000" -> 0
      [] OTHER -> 255

default_options ==
    [alpha_matting |-> TRUE, fg_threshold |-> 240, bg_threshold |-> 10,
     bg_color |-> "#1E1E1E", use_sharpen |-> FALSE, use_contrast |-> FALSE]

(***************************************************************************)
(* resize_image.                                                           *)
(***************************************************************************)
RECURSIVE GCD(_, _)
GCD(a, b) == IF b = 0 THEN a ELSE GCD(b, a % b)

\* The <<max_dim, width, height>> (width : height in lowest terms) for which
\* the double-precision quotient of lines 171-177 lands just below the whole
\* number max_dim * short / long, so that int() yields one less.  Computed
\* with IEEE-754 doubles for max_dim <= 12 and sides <= 24, and for the
\* pictures of Uploads and ZebraFiles at MAX_IMAGE_DIM.
FLOAT_BELOW == { <<9, 9, 7>> }

\* int(x) of the float x the code computes for the scaled side:
\* exact is num / den, truncated; one less for the triples of FLOAT_BELOW.
int_scaled(num, den, max_dim, width, height) ==
    LET g == GCD(width, height)
    IN IF <<max_dim, width \div g, height \div g>> \in FLOAT_BELOW
       THEN (num \div den) - 1
       ELSE num \div den

resize_dims_Rounded(width, height, max_dim) ==
    IF width > height
    THEN <<max_dim, (2 * max_dim * height + width) \div (2 * width)>>
    ELSE <<(2 * max_dim * width + height) \div (2 * height), max_dim>>

\* Lines 171-177: the new size of an image that exceeds max_dim.
resize_dims(width, height, max_dim) ==
    IF width > height
    THEN <<max_dim, int_scaled(max_dim * height, width, max_dim, width, height)>>
    ELSE <<int_scaled(max_dim * width, height, max_dim, width, height), max_dim>>

\* resize_image(image, max_dim): the image itself when it fits, else the
\* image resampled to resize_dims; Image.resize raises ValueError when a side
\* of the new size is 0.
resize_image(image, max_dim) ==
    LET width == image.size[1]
        height == image.size[2]
    IN IF width <= max_dim /\ height <= max_dim
       THEN [raised |-> FALSE, image |-> image]
       ELSE LET d == resize_dims(width, height, max_dim)
            IN IF d[1] < 1 \/ d[2] < 1
               THEN [raised |-> TRUE, image |-> None]
               ELSE [raised |-> FALSE,
                     image |-> [image EXCEPT !.size = d,
                                             !.ops = Append(@, "LANCZOS")]]

(***************************************************************************)
(* process_image: the body, stage by stage.                                *)
(***************************************************************************)
\* Image.open(BytesIO(image_bytes)): the decoded picture.
Image_open(image_bytes) ==
    [size |-> image_bytes.size, mode |-> image_bytes.mode, ops |-> <<>>,
     matting |-> NoMatting, fill |-> ""]

\* Lines 191-192: anything that is not RGBA is converted to RGBA.
convert_RGBA(image) ==
    IF image.mode # "RGBA" THEN [image EXCEPT !.mode = "RGBA"] ELSE image

filter_SHARPEN(image) == [image EXCEPT !.ops = Append(@, "SHARPEN")]

enhance_contrast(image) == [image EXCEPT !.ops = Append(@, "Contrast(1.2)")]

\* rembg's remove: an RGBA cut-out of the same size, made with the given
\* matting parameters.
remove(image, alpha_matting, fg_threshold, bg_threshold) ==
    [image EXCEPT !.mode = "RGBA",
                  !.matting = [called |-> TRUE, alpha_matting |-> alpha_matting,
                               fg_threshold |-> fg_threshold,
                               bg_threshold |-> bg_threshold]]

composite_KeepsRGBA(removed_bg_image, bg_color) ==
    IF bg_color # "transparent"
    THEN [removed_bg_image EXCEPT !.fill = bg_color]
    ELSE removed_bg_image

\* Lines 214-220: paste the cut-out on a canvas of bg_color and convert it to
\* RGB, unless bg_color is the string 'transparent'.
composite(removed_bg_image, bg_color) ==
    IF bg_color # "transparent"
    THEN [removed_bg_image EXCEPT !.fill = bg_color, !.mode = "RGB"]
    ELSE removed_bg_image

Raised(stage) ==
    [raised |-> stage, resized_image |-> None, processed_image |-> None,
     removed_bg_image |-> None, final_image |-> None, remove_calls |-> 0]

\* Lines 187-220: the locals of the try block when it ends, and the stage
\* that raised, if one did.  remove_ok is whether rembg returns or raises.
pipeline(image_bytes, options, remove_ok) ==
    IF ~image_bytes.decodable
    THEN Raised("open")
    ELSE
    LET original_image == convert_RGBA(Image_open(image_bytes))
        rz == resize_image(original_image, MAX_IMAGE_DIM)
    IN IF rz.raised
       THEN Raised("resize")
       ELSE
       LET resized_image == rz.image
           sharpened == IF options.use_sharpen
                        THEN filter_SHARPEN(resized_image)
                        ELSE resized_image
           processed_image == IF options.use_contrast
                              THEN enhance_contrast(sharpened)
                              ELSE sharpened
           removed_bg_image == remove(processed_image,
                                      options.alpha_matting,
                                      options.fg_threshold,
                                      options.bg_threshold)
       IN IF ~remove_ok
          THEN [Raised("remove") EXCEPT !.resized_image = resized_image,
                                        !.processed_image = processed_image,
                                        !.remove_calls = 1]
          ELSE [raised |-> "", resized_image |-> resized_image,
                processed_image |-> processed_image,
                removed_bg_image |-> removed_bg_image,
                final_image |-> composite(removed_bg_image,
                                          options.bg_color),
                remove_calls |-> 1]

process_image_ReturnsProcessed(image_bytes, options, remove_ok) ==
    LET p == pipeline(image_bytes, options, remove_ok)
    IN IF p.raised # "" THEN <<None, None>>
       ELSE <<p.processed_image, p.final_image>>

\* Lines 182-229: what process_image returns: (resized_image, final_image),
\* or (None, None) from the except clause.
process_image(image_bytes, options, remove_ok) ==
    LET p == pipeline(image_bytes, options, remove_ok)
    IN IF p.raised # "" THEN <<None, None>>
       ELSE <<p.resized_image, p.final_image>>

(***************************************************************************)
(* @st.cache_data(ttl=3600) around process_image.                          *)
(***************************************************************************)
CacheKey_IgnoresEffects(image_bytes, options) ==
    <<image_bytes, [options EXCEPT !.use_sharpen = FALSE,
                                           !.use_contrast = FALSE]>>

\* The one element of a one-element set.
The(S) == CHOOSE x \in S : TRUE

\* The key of a call: the arguments, by value.
CacheKey(image_bytes, options) == <<image_bytes, options>>

Fresh_Minute(entry, t) == t - entry.at < 60

\* Whether an entry still answers a call made at time t: it does until it is
\* ttl seconds old.
Fresh(entry, t) == t - entry.at < TTL

\* One call of the cached function at time t: a fresh entry of the key is
\* returned without running the body; otherwise the body runs and whatever it
\* returns is stored under the key.
cache_data_call(entries, t, image_bytes, options, remove_ok) ==
    LET key == CacheKey(image_bytes, options)
        hits == {e \in entries : e.key = key /\ Fresh(e, t)}
        hit(e) == [executed |-> FALSE, ret |-> e.value, at |-> e.at,
                   entries |-> entries, raised |-> "",
                   remove_arg |-> None, remove_calls |-> 0]
        miss(p, value) ==
            [executed |-> TRUE, ret |-> value, at |-> t,
             entries |-> {e \in entries : e.key # key}
                           \cup {[key |-> key, value |-> value, at |-> t]},
             raised |-> p.raised,
             remove_arg |-> p.processed_image,
             remove_calls |-> p.remove_calls]
    IN IF hits # {}
       THEN The({hit(e) : e \in hits})
       ELSE The({miss(p, value) :
                   p \in {pipeline(image_bytes, options, remove_ok)},
                   value \in {process_image(image_bytes, options, remove_ok)}})

(***************************************************************************)
(* main(): one run of the script.                                          *)
(***************************************************************************)
\* convert_image_to_bytes(img, format): img.save raises for an RGBA image
\* written as JPEG.
convert_image_to_bytes(img, format) ==
    [raised |-> (format = "JPEG" /\ img.mode = "RGBA")]

\* Line 326.
file_format_of(options) ==
    IF options.bg_color = "transparent" THEN "PNG" ELSE "JPEG"

NoRun ==
    [branch |-> "none", called |-> FALSE, image_bytes |-> NoFile,
     options |-> default_options, time |-> 0,
     executed |-> FALSE, at |-> 0, ret |-> <<None, None>>, raised |-> "",
     remove_arg |-> None, remove_calls |-> 0,
     file_format |-> "", save_raised |-> FALSE,
     seen |-> FALSE, prior_ret |-> <<None, None>>, prior_at |-> 0]

\* Lines 315-336: the download button, offered when both images are there.
download(r, options) ==
    IF r.ret[1] # None /\ r.ret[2] # None
    THEN [r EXCEPT !.file_format = file_format_of(options),
                   !.save_raised =
                       convert_image_to_bytes(r.ret[2],
                                              file_format_of(options)).raised]
    ELSE r

\* The record of a call of process_image made by this run.
called(branch, image_bytes, options, c) ==
    LET before == {h \in history : h.key = <<image_bytes, options>>}
    IN [NoRun EXCEPT !.branch = branch, !.called = TRUE,
                     !.image_bytes = image_bytes, !.options = options,
                     !.time = now, !.executed = c.executed, !.at = c.at,
                     !.ret = c.ret, !.raised = c.raised,
                     !.remove_arg = c.remove_arg,
                     !.remove_calls = c.remove_calls,
                     !.seen = (before # {}),
                     !.prior_ret = IF before = {} THEN <<None, None>>
                                   ELSE The(before).ret,
                     !.prior_at = IF before = {} THEN 0
                                  ELSE The(before).at]

handed(image_bytes, options, c) ==
    {h \in history : h.key # <<image_bytes, options>>}
        \cup {[key |-> <<image_bytes, options>>, ret |-> c.ret, at |-> c.at]}

\* Lines 239-355 for the widget values opts and the uploader's file upload.
main(opts, upload, remove_ok) ==
    /\ nruns < MaxRuns
    /\ nruns' = nruns + 1
    /\ session_options' = opts
    /\ my_upload' = upload
    /\ IF upload # NoFile
       THEN IF upload.len > MAX_FILE_SIZE
            THEN /\ run' = [NoRun EXCEPT !.branch = "too_large", !.time = now,
                                         !.options = opts]
                 /\ UNCHANGED <<cache, history>>
            ELSE \E c \in {cache_data_call(cache, now, upload, opts, remove_ok)} :
                 \E r \in {called("upload", upload, opts, c)} :
                    /\ cache' = c.entries
                    /\ run' = download(r, opts)
                    /\ history' = handed(upload, opts, c)
       ELSE IF zebra # NoFile
            THEN \E sample_options \in {opts} :
                 \E c \in {cache_data_call(cache, now, zebra, sample_options,
                                           remove_ok)} :
                    /\ cache' = c.entries
                    /\ run' = called("example", zebra, sample_options, c)
                    /\ history' = handed(zebra, sample_options, c)
            ELSE /\ run' = [NoRun EXCEPT !.branch = "welcome", !.time = now,
                                         !.options = opts]
                 /\ UNCHANGED <<cache, history>>
    /\ UNCHANGED <<zebra, now, nticks, rz_in, rz_out>>

(***************************************************************************)
(* The user's interactions; each one reruns the script.                    *)
(***************************************************************************)
SetAlphaMatting ==
    \E v \in toggle_values, remove_ok \in BOOLEAN :
        main([session_options EXCEPT !.alpha_matting = v], my_upload,
             remove_ok)

SetFgThreshold ==
    \E v \in fg_slider_values, remove_ok \in BOOLEAN :
        main([session_options EXCEPT !.fg_threshold = v], my_upload,
             remove_ok)

SetBgThreshold ==
    \E v \in bg_slider_values, remove_ok \in BOOLEAN :
        main([session_options EXCEPT !.bg_threshold = v], my_upload,
             remove_ok)

PickColor ==
    \E v \in color_picker_values, remove_ok \in BOOLEAN :
        main([session_options EXCEPT !.bg_color = v], my_upload,
             remove_ok)

SetSharpen ==
    \E v \in toggle_values, remove_ok \in BOOLEAN :
        main([session_options EXCEPT !.use_sharpen = v], my_upload,
             remove_ok)

SetContrast ==
    \E v \in toggle_values, remove_ok \in BOOLEAN :
        main([session_options EXCEPT !.use_contrast = v], my_upload,
             remove_ok)

\* A file is chosen in the uploader, or the uploader is cleared.
Upload ==
    \E f \in Uploads \cup {NoFile}, remove_ok \in BOOLEAN :
        main(session_options, f, remove_ok)

\* Time passes between two runs.
Tick ==
    /\ nticks < MaxTicks
    /\ \E d \in {TTL - 1, TTL + 1} : now' = now + d
    /\ nticks' = nticks + 1
    /\ UNCHANGED <<session_options, my_upload, zebra, cache, run, history,
                   nruns, rz_in, rz_out>>

NoResize == [done |-> FALSE, raised |-> FALSE, same |-> FALSE,
             size |-> <<0, 0>>]

Init ==
    /\ session_options = default_options
    /\ my_upload = NoFile
    /\ zebra \in ZebraFiles
    /\ cache = {}
    /\ now = 0
    /\ run = NoRun
    /\ history = {}
    /\ nruns = 0
    /\ nticks = 0
    /\ rz_in = <<1, 1, 1>>
    /\ rz_out = NoResize

Next ==
    \/ SetAlphaMatting
    \/ SetFgThreshold
    \/ SetBgThreshold
    \/ PickColor
    \/ SetSharpen
    \/ SetContrast
    \/ Upload
    \/ Tick

Spec == Init /\ [][Next]_vars

(***************************************************************************)
(* resize_image on its own, over every size and max_dim within the bounds. *)
(***************************************************************************)
ResizeInit ==
    /\ session_options = default_options
    /\ my_upload = NoFile
    /\ zebra = NoFile
    /\ cache = {}
    /\ now = 0
    /\ run = NoRun
    /\ history = {}
    /\ nruns = 0
    /\ nticks = 0
    /\ rz_in \in (1..MaxSide) \X (1..MaxSide) \X (1..MaxDimBound)
    /\ rz_out = NoResize

ResizeCall ==
    /\ ~rz_out.done
    /\ LET image == [size |-> <<rz_in[1], rz_in[2]>>, mode |-> "RGBA",
                     ops |-> <<>>, matting |-> NoMatting, fill |-> ""]
           r == resize_image(image, rz_in[3])
       IN rz_out' = [done |-> TRUE, raised |-> r.raised,
                     same |-> (r.image = image), size |-> r.image.size]
    /\ UNCHANGED <<app_vars, rz_in>>

ResizeNext == ResizeCall

ResizeSpec == ResizeInit /\ [][ResizeNext]_vars

(***************************************************************************)
(* Properties.                                                             *)
(***************************************************************************)
Failed == <<None, None>>

\* The last run called process_image for a request made before, whose entry
\* was then less than / more than ttl seconds old.
AskedAgainBeforeTTL ==
    run.called /\ run.seen /\ run.time - run.prior_at < TTL

AskedAgainAfterTTL ==
    run.called /\ run.seen /\ run.time - run.prior_at > TTL

\* The last run executed the body of process_image and no stage raised.
RanToTheEnd == run.called /\ run.executed /\ run.raised = ""

\* C1: failures are never memoized: the cache holds no entry for a request
\* whose processing failed, and a request that failed before runs the
\* pipeline again when it is made again.
C1_FailuresNeverMemoized ==
    /\ \A e \in cache : e.value # Failed
    /\ (run.called /\ run.seen /\ run.prior_ret = Failed) => run.executed

\* C3: a request made again with the same bytes and options before its entry
\* is ttl seconds old is a cache hit: the body does not run, rembg is not
\* invoked, and the pair returned is the pair returned the first time.
C3_Idempotence ==
    AskedAgainBeforeTTL =>
        /\ ~run.executed
        /\ run.remove_calls = 0
        /\ run.ret = run.prior_ret

C3_Witness ==
    /\ AskedAgainBeforeTTL
    /\ run.time > run.prior_at
    /\ ~run.executed
    /\ run.ret # Failed

\* C4: a call is answered from the cache only if the same bytes with the same
\* values of all six options were asked for before, and then with the entry
\* that request was given; a request whose options differ in any field from
\* every earlier one runs the body.
C4_CacheKeySensitivity ==
    (run.called /\ ~run.executed) =>
        /\ run.seen
        /\ run.ret = run.prior_ret
        /\ run.at = run.prior_at

\* The body ran although a fresh entry for the same bytes under other options
\* was in the cache.
C4_Witness ==
    /\ run.called /\ run.executed /\ ~run.seen
    /\ \E e \in cache :
          /\ e.key[1] = run.image_bytes
          /\ e.key[2] # run.options
          /\ e.at < run.time
          /\ run.time - e.at < TTL

\* C5: no call of process_image is made with bytes longer than
\* MAX_FILE_SIZE, on the upload path or on the example path.
C5_SizeGateOrdering ==
    run.called => run.image_bytes.len <= MAX_FILE_SIZE

\* C6 as claimed: after a successful run the first image returned is the
\* bitmap that was passed to rembg.
C6_PreprocessedIsRemoverInput ==
    RanToTheEnd => run.ret[1] = run.remove_arg

\* The filters the options enable, in the order the code applies them.
EnabledFilters(options) ==
    (IF options.use_sharpen THEN <<"SHARPEN">> ELSE <<>>)
        \o (IF options.use_contrast THEN <<"Contrast(1.2)">> ELSE <<>>)

\* C6 as amended: after a successful run the first image returned is the
\* RGBA bitmap after the resize and before any filter; the bitmap passed to
\* rembg is that bitmap with the enabled filters applied, so the two are the
\* same exactly when both use_sharpen and use_contrast are off.
C6_OriginalIsResizedOnly ==
    RanToTheEnd =>
        /\ run.ret[1].mode = "RGBA"
        /\ run.ret[1].ops \in {<<>>, <<"LANCZOS">>}
        /\ run.ret[1].size[1] <= MAX_IMAGE_DIM
        /\ run.ret[1].size[2] <= MAX_IMAGE_DIM
        /\ run.remove_arg =
              [run.ret[1] EXCEPT !.ops = @ \o EnabledFilters(run.options)]
        /\ (run.ret[1] = run.remove_arg) <=>
              (~run.options.use_sharpen /\ ~run.options.use_contrast)

C6_Witness ==
    /\ RanToTheEnd
    /\ run.options.use_sharpen
    /\ run.options.use_contrast
    /\ run.ret[1].ops = <<"LANCZOS">>
    /\ run.remove_arg.ops = <<"LANCZOS", "SHARPEN", "Contrast(1.2)">>

\* resize_image on its own: the sides of the input and of the output, longer
\* and shorter as the code tells them apart (width > height or not).
RzExceeds == rz_in[1] > rz_in[3] \/ rz_in[2] > rz_in[3]
RzLong == IF rz_in[1] > rz_in[2] THEN rz_in[1] ELSE rz_in[2]
RzShort == IF rz_in[1] > rz_in[2] THEN rz_in[2] ELSE rz_in[1]
RzNewLong == IF rz_in[1] > rz_in[2] THEN rz_out.size[1] ELSE rz_out.size[2]
RzNewShort == IF rz_in[1] > rz_in[2] THEN rz_out.size[2] ELSE rz_out.size[1]

\* C7 as claimed: for an image with a side over max_dim, the size that
\* resize_image returns has a longer side of max_dim and a shorter side of
\* max_dim * short / long rounded to a nearest integer.
C7_ShortSideRounded ==
    (rz_out.done /\ RzExceeds /\ ~rz_out.raised) =>
        /\ RzNewLong = rz_in[3]
        /\ 2 * (RzNewShort * RzLong - rz_in[3] * RzShort) <= RzLong
        /\ 2 * (rz_in[3] * RzShort - RzNewShort * RzLong) <= RzLong

\* C7 as amended: for an image with a side over max_dim, the new longer side
\* is max_dim and the new shorter side is max_dim * short / long truncated,
\* not rounded: the floor of the quotient, or one less where the quotient is
\* a whole number (the floating-point division may land just below it); when
\* that side is 0 the resize raises instead of returning.
C7_ShortSideTruncated ==
    (rz_out.done /\ RzExceeds) =>
        IF rz_out.raised
        THEN rz_in[3] * RzShort <= RzLong
        ELSE /\ RzNewLong = rz_in[3]
             /\ RzNewShort >= 1
             /\ RzNewShort * RzLong <= rz_in[3] * RzShort
             /\ rz_in[3] * RzShort <= (RzNewShort + 1) * RzLong

\* A size was returned where rounding would have given one more.
C7_Witness ==
    /\ rz_out.done /\ RzExceeds /\ ~rz_out.raised
    /\ RzNewLong = rz_in[3]
    /\ 2 * (rz_in[3] * RzShort - RzNewShort * RzLong) > RzLong

\* C8: whenever the download is prepared, the format is PNG exactly when
\* bg_color is 'transparent' and JPEG otherwise, and a JPEG is only written
\* from an RGB final image, so the save does not raise.
C8_OutputFormatRule ==
    run.file_format # "" =>
        /\ run.file_format \in {"PNG", "JPEG"}
        /\ (run.file_format = "PNG") <=> (session_options.bg_color = "transparent")
        /\ run.file_format = "JPEG" => run.ret[2].mode = "RGB"
        /\ ~run.save_raised

C8_Witness ==
    /\ run.branch = "upload"
    /\ run.file_format = "JPEG"
    /\ run.ret[2].mode = "RGB"
    /\ run.ret[2].fill = "#1E1E1E"

\* C9: a bg_color with alpha 0 is treated as transparent: the final image is
\* rembg's RGBA output, not pasted on a colour and not converted to RGB, and
\* the download is a PNG.
C9_AlphaZeroIsTransparent ==
    (RanToTheEnd /\ Alpha(run.options.bg_color) = 0) =>
        /\ run.ret[2].mode = "RGBA"
        /\ run.ret[2].fill = ""
        /\ run.branch = "upload" => run.file_format = "PNG"

\* C10: no result older than ttl seconds is returned, and a request whose
\* entry is older than ttl seconds runs the whole pipeline again, with one
\* new invocation of rembg, and its entry is replaced.
C10_TTLExpiry ==
    /\ run.called => run.time - run.at <= TTL
    /\ AskedAgainAfterTTL =>
          /\ run.executed
          /\ run.remove_calls = 1
          /\ run.at = run.time
          /\ \E e \in cache :
                /\ e.key = <<run.image_bytes, run.options>>
                /\ e.value = run.ret
                /\ e.at = run.time

\* The part of C10 about entries that hold a result: such an entry, once
\* older than ttl seconds, is not returned; the body runs again, rembg is
\* invoked once, and the entry is replaced.
TTLExpiryOfStoredResults ==
    (AskedAgainAfterTTL /\ run.prior_ret # Failed) =>
        /\ run.executed
        /\ run.remove_calls = 1
        /\ run.at = run.time
        /\ \E e \in cache :
              /\ e.key = <<run.image_bytes, run.options>>
              /\ e.value = run.ret
              /\ e.at = run.time

====
